---------------------------- MODULE Spec2Model ----------------------------
(***************************************************************************)
(* A model of wheeldiff (src/src/wheeldiff/_impl/cmd.py): the text         *)
(* classifier is_text, the tree normalizer normalize, the recursive tree   *)
(* comparison Command.diff (on top of filecmp.dircmp), and the session     *)
(* Command.run with its two scoped temporary directories.                  *)
(*                                                                         *)
(* Strings are sequences of one-character strings.  A directory tree is a  *)
(* function from paths (sequences of entry names) to entries.              *)
(***************************************************************************)
EXTENDS Integers, Sequences, FiniteSets, TLC

VARIABLES
    ignore,     \* Command.ignore: the effective ignore set
    whl1, whl2, \* the two wheel archives: [version, files]
    pc,         \* position of Command.run
    exc,        \* the exception in flight ("none" when there is none)
    tmp1, tmp2, \* UnpackedWheel.tempdir of each side: [state, removals]
    fs1, fs2,   \* the tree under each temporary directory
    clock,      \* the filesystem's timestamp tick
    accum,      \* the records Command.diff accumulated
    stdout,     \* what the rendering loop has written so far
    status,     \* the process exit status (-1 while the process runs)
    nroot,      \* normalize under test: the tree
    nversion,   \*   its version argument
    nrewrite,   \*   its version_in_content argument
    ncalls,     \*   how many times normalize has been called on nroot
    nbefore     \*   the tree as it was before the last call

sessVars == <<ignore, whl1, whl2, pc, exc, tmp1, tmp2, fs1, fs2, clock,
              accum, stdout, status>>
normVars == <<nroot, nversion, nrewrite, ncalls, nbefore>>
vars == <<sessVars, normVars>>

---------------------------------------------------------------------------
(* Bounds of the model *)

\* the timestamp tick can advance this far during a run
MaxTick == 1
\* longest file content normalize is tried on
MaxContentLen == 3
\* how many times in a row normalize is called on one tree
MaxCalls == 2

---------------------------------------------------------------------------
(* Characters and strings *)

Min(S) == CHOOSE x \in S : \A y \in S : x <= y

\* the replacement text of line 65 and line 74
Placeholder == <<"$", "V", "E", "R", "S", "I", "O", "N">>

\* a byte that the strict decoder of read_text rejects
BadByte == "xFF"

NL == "\n"

\* the class [-_/'"\s] of lines 54 and 56 (the ASCII members of \s)
BoundaryChars == {"-", "_", "/", "'", "\"", " ", "\t", "\n", "\r", "\f"}

\* is_text: strict decoding of the whole content succeeds
is_text(content) == \A i \in 1..Len(content) : content[i] # BadByte

\* `old in s` of line 64 (the empty string is in every string)
Contains(s, old) ==
    \E i \in 1..(Len(s) - Len(old) + 1) : SubSeq(s, i, i + Len(old) - 1) = old

\* str.replace(old, new): leftmost non-overlapping occurrences; the empty
\* string occurs before every character and at the end
RECURSIVE Replace(_, _, _)
Replace(s, old, new) ==
    IF old = <<>>
    THEN IF s = <<>> THEN new
         ELSE new \o <<Head(s)>> \o Replace(Tail(s), old, new)
    ELSE IF Len(s) < Len(old) THEN s
    ELSE IF SubSeq(s, 1, Len(old)) = old
         THEN new \o Replace(SubSeq(s, Len(old) + 1, Len(s)), old, new)
         ELSE <<Head(s)>> \o Replace(Tail(s), old, new)

\* str.endswith
EndsWith(s, suffix) ==
    /\ Len(suffix) <= Len(s)
    /\ SubSeq(s, Len(s) - Len(suffix) + 1, Len(s)) = suffix

---------------------------------------------------------------------------
(* version_re and version_re.sub (lines 52-59 and 74)                      *)
(* Positions are 1-based; position Len(s)+1 is the end of the string.      *)

\* ^ under re.MULTILINE
LineStart(s, p) == p = 1 \/ s[p - 1] = NL
\* $ under re.MULTILINE
LineEnd(s, p) == p = Len(s) + 1 \/ s[p] = NL
\* a character of the boundary class at p
BoundaryAt(s, p) == p <= Len(s) /\ s[p] \in BoundaryChars
\* re.escape(version): the version, matched literally, at p
LiteralAt(s, p, v) ==
    /\ p + Len(v) - 1 <= Len(s)
    /\ SubSeq(s, p, p + Len(v) - 1) = v

\* The four ways the two groups can match, in the order the backtracking
\* engine tries them: g1/g2 = 0 is the anchor, 1 is one boundary character
\* (which the match consumes).
Alternatives ==
    << [g1 |-> 0, g2 |-> 0], [g1 |-> 0, g2 |-> 1],
       [g1 |-> 1, g2 |-> 0], [g1 |-> 1, g2 |-> 1] >>

NoMatch == [g1 |-> 2, g2 |-> 2]

\* a pattern that forgets the leading boundary group
MatchesWithoutLeadingBoundary(s, v, p, a) ==
    /\ a.g1 = 0
    /\ LiteralAt(s, p, v)
    /\ IF a.g2 = 0 THEN LineEnd(s, p + Len(v)) ELSE BoundaryAt(s, p + Len(v))

\* whether the pattern matches at p with the groups taken as in a
Matches(s, v, p, a) ==
    /\ IF a.g1 = 0 THEN LineStart(s, p) ELSE BoundaryAt(s, p)
    /\ LiteralAt(s, p + a.g1, v)
    /\ IF a.g2 = 0 THEN LineEnd(s, p + a.g1 + Len(v))
                   ELSE BoundaryAt(s, p + a.g1 + Len(v))

\* the match the engine finds at p; mustAdvance forbids an empty match
MatchAt(s, v, p, mustAdvance) ==
    LET ok == {i \in 1..Len(Alternatives) :
                  /\ Matches(s, v, p, Alternatives[i])
                  /\ ~(mustAdvance /\
                       Alternatives[i].g1 + Len(v) + Alternatives[i].g2 = 0)}
    IN  IF ok = {} THEN NoMatch ELSE Alternatives[Min(ok)]

\* version_re.sub(r"\1$VERSION\2", s) from position pos on: each match is
\* searched from the end of the previous one; after an empty match the
\* next match at the same position must not be empty
RECURSIVE SubFrom(_, _, _, _)
SubFrom(s, v, pos, mustAdvance) ==
    LET hits == {p \in pos..(Len(s) + 1) :
                    MatchAt(s, v, p, mustAdvance /\ p = pos) # NoMatch}
    IN  IF hits = {} THEN SubSeq(s, pos, Len(s))
        ELSE LET p  == Min(hits)
                 m  == MatchAt(s, v, p, mustAdvance /\ p = pos)
                 vs == p + m.g1
                 ve == vs + Len(v)
                 e  == ve + m.g2
             IN  SubSeq(s, pos, p - 1) \o SubSeq(s, p, vs - 1) \o Placeholder
                   \o SubSeq(s, ve, e - 1) \o SubFrom(s, v, e, e = p)

VersionReSub(s, v) == SubFrom(s, v, 1, FALSE)

---------------------------------------------------------------------------
(* Trees *)

FileEntry(c) == [kind |-> "file", content |-> c, mtime |-> 0]
DirEntry == [kind |-> "dir", content |-> <<>>, mtime |-> 0]
Absent == [kind |-> "absent", content |-> <<>>, mtime |-> 0]

EmptyTree == [p \in {} |-> Absent]

\* os.scandir / os.listdir of directory dir of tree t: the entry names
Listing(t, dir) ==
    {p[Len(p)] : p \in {q \in DOMAIN t :
                          /\ Len(q) = Len(dir) + 1
                          /\ SubSeq(q, 1, Len(dir)) = dir}}

---------------------------------------------------------------------------
(* normalize (lines 49-77) *)

\* lines 64-66: the name an entry ends up with
NewName(name, version) ==
    IF Contains(name, version) THEN Replace(name, version, Placeholder)
    ELSE name

\* normalize renames on the way down, so a path ends up with every
\* component renamed
NewPath(p, version) == [i \in 1..Len(p) |-> NewName(p[i], version)]

\* lines 70-77 for one entry: a text file is rewritten when
\* version_in_content is set and the substitution changes it
NormalizeEntry(e, version, version_in_content, now) ==
    IF e.kind = "file" /\ is_text(e.content) /\ version_in_content
    THEN LET new_content == VersionReSub(e.content, version)
         IN  IF e.content # new_content
             THEN [e EXCEPT !.content = new_content, !.mtime = now]
             ELSE e
    ELSE e

\* normalize(root, version, version_in_content) on tree t.  The extracted
\* names hold no "$", so no two entries are renamed to the same name, and
\* the listing of a directory is the one read when its scan starts.
normalize(t, version, version_in_content, now) ==
    [q \in {NewPath(p, version) : p \in DOMAIN t} |->
        NormalizeEntry(t[CHOOSE p \in DOMAIN t : NewPath(p, version) = q],
                       version, version_in_content, now)]

---------------------------------------------------------------------------
(* filecmp.dircmp(dir1, dir2, ignore=[]) (line 128) *)

\* the characters of the names of the model, in code-point order
CodePoints ==
    << "$", "-", ".", "/", "0", "1", "2", "C", "D", "E", "I", "N", "O", "R",
       "S", "V", "a", "d", "f", "i", "n", "o", "p", "s", "t", "x" >>

Code(ch) == CHOOSE i \in 1..Len(CodePoints) : CodePoints[i] = ch

\* a < b for strings, as list.sort orders them
RECURSIVE Less(_, _)
Less(a, b) ==
    IF b = <<>> THEN FALSE
    ELSE IF a = <<>> THEN TRUE
    ELSE IF Head(a) = Head(b) THEN Less(Tail(a), Tail(b))
    ELSE Code(Head(a)) < Code(Head(b))

\* dircmp keeps its name lists sorted
RECURSIVE SortNames(_)
SortNames(S) ==
    IF S = {} THEN <<>>
    ELSE LET first == CHOOSE a \in S : \A b \in S \ {a} : Less(a, b)
         IN  <<first>> \o SortNames(S \ {first})

\* filecmp._sig: (file type, size, mtime)
Sig(e) == <<e.kind, Len(e.content), e.mtime>>

\* a comparison that trusts the stat signature alone
CmpSignatureOnly(e1, e2) ==
    /\ e1.kind = "file"
    /\ e2.kind = "file"
    /\ Sig(e1) = Sig(e2)

\* filecmp.cmp(f1, f2, shallow=True), which dircmp uses: files with the
\* same signature are equal without being read; otherwise their sizes and
\* then their contents are compared
Cmp(e1, e2) ==
    IF e1.kind # "file" \/ e2.kind # "file" THEN FALSE
    ELSE IF Sig(e1) = Sig(e2) THEN TRUE
    ELSE IF Len(e1.content) # Len(e2.content) THEN FALSE
    ELSE e1.content = e2.content

\* dircmp.phase1
Common(t1, t2, dir) == Listing(t1, dir) \cap Listing(t2, dir)
LeftOnly(t1, t2, dir) == Listing(t1, dir) \ Listing(t2, dir)
RightOnly(t1, t2, dir) == Listing(t2, dir) \ Listing(t1, dir)

\* dircmp.phase2: a common name is a directory on both sides, a regular
\* file on both sides, or "funny" (the types differ)
CommonDirs(t1, t2, dir) ==
    {n \in Common(t1, t2, dir) :
        /\ t1[dir \o <<n>>].kind = "dir"
        /\ t2[dir \o <<n>>].kind = "dir"}
CommonFiles(t1, t2, dir) ==
    {n \in Common(t1, t2, dir) :
        /\ t1[dir \o <<n>>].kind = "file"
        /\ t2[dir \o <<n>>].kind = "file"}
CommonFunny(t1, t2, dir) ==
    Common(t1, t2, dir) \ (CommonDirs(t1, t2, dir) \cup CommonFiles(t1, t2, dir))

\* dircmp.phase3
DiffFiles(t1, t2, dir) ==
    {n \in CommonFiles(t1, t2, dir) :
        ~Cmp(t1[dir \o <<n>>], t2[dir \o <<n>>])}

---------------------------------------------------------------------------
(* Command.diff (lines 127-161) *)

Record(path, diff_type) == [path |-> path, diff_type |-> diff_type]

\* the name mkdtemp gives the temporary directory of a side; it ends with
\* the suffix of line 85
TempDirName(side) ==
    <<"/", "t", "m", "p", "/", side>>
        \o <<"w", "h", "e", "e", "l", "d", "i", "f", "f">>

\* os.path.join
PathJoin(a, b) == a \o <<"/">> \o b

RECURSIVE PathOf(_, _)
PathOf(root, dir) ==
    IF dir = <<>> THEN root
    ELSE PathJoin(PathOf(root, SubSeq(dir, 1, Len(dir) - 1)), dir[Len(dir)])

\* the suffix tested at line 146
RecordSuffix ==
    <<".", "d", "i", "s", "t", "-", "i", "n", "f", "o", "/",
      "R", "E", "C", "O", "R", "D">>

\* lines 146-149: the differing file is passed over
RecordIgnored(ign, dir, name) ==
    /\ "record" \in ign
    /\ EndsWith(PathJoin(PathOf(TempDirName("1"), dir), name), RecordSuffix)

\* lines 153-155
DiffTypeOf(e1, e2) ==
    IF is_text(e1.content) /\ is_text(e2.content) THEN "TEXT_DIFFERS"
    ELSE "BINARY_DIFFERS"

\* the records diff appends for directory dir of both trees, in order
RECURSIVE Diff(_, _, _, _, _)
Diff(t1, t2, ign, dir, prefix) ==
    LET left  == SortNames(LeftOnly(t1, t2, dir))
        right == SortNames(RightOnly(t1, t2, dir))
        files == SelectSeq(SortNames(DiffFiles(t1, t2, dir)),
                           LAMBDA n : ~RecordIgnored(ign, dir, n))
        dirs  == SortNames(CommonDirs(t1, t2, dir))
        Sub[i \in 0..Len(dirs)] ==
            IF i = 0 THEN <<>>
            ELSE Sub[i - 1] \o Diff(t1, t2, ign, dir \o <<dirs[i]>>,
                                    prefix \o dirs[i] \o <<"/">>)
    IN  [i \in 1..Len(left) |-> Record(prefix \o left[i], "LEFT_ONLY")]
        \o [i \in 1..Len(right) |-> Record(prefix \o right[i], "RIGHT_ONLY")]
        \o [i \in 1..Len(files) |->
               Record(prefix \o files[i],
                      DiffTypeOf(t1[dir \o <<files[i]>>],
                                 t2[dir \o <<files[i]>>]))]
        \o Sub[Len(dirs)]

---------------------------------------------------------------------------
(* The wheels given on the command line *)

V10 == <<"1", ".", "0">>
V20 == <<"2", ".", "0">>
Hello == <<" ", "h", "e", "l", "l", "o">>

\* `wheel unpack` extracts into <dest>/<name>-<version>
TopDir(v) == <<"p", "-">> \o v
DistInfo(v) == TopDir(v) \o <<".", "d", "i", "s", "t", "-", "i", "n", "f", "o">>
ATxt == <<"a", ".", "t", "x", "t">>
RECORD == <<"R", "E", "C", "O", "R", "D">>

\* what a.txt may be in a wheel of version v
ATxtChoices(v) ==
    { Absent, DirEntry,
      FileEntry(<<"v">> \o v \o Hello), FileEntry(v \o Hello),
      FileEntry(<<BadByte>>), FileEntry(<<BadByte, "h">>) }

\* what <name>-<version>.dist-info/RECORD may be
RecordChoices == { Absent, FileEntry(<<"r">>), FileEntry(<<"s">>) }

\* the files of a wheel
WheelFiles(v, a, r) ==
    LET top == <<TopDir(v)>>
        dom == {top}
               \cup (IF a = Absent THEN {} ELSE {top \o <<ATxt>>})
               \cup (IF r = Absent THEN {}
                     ELSE {top \o <<DistInfo(v)>>,
                           top \o <<DistInfo(v), RECORD>>})
    IN  [p \in dom |->
            IF p = top \o <<ATxt>> THEN a
            ELSE IF p = top \o <<DistInfo(v), RECORD>> THEN r
            ELSE DirEntry]

Wheels(versions) ==
    UNION { { [version |-> v, files |-> WheelFiles(v, a, r)] :
                a \in ATxtChoices(v), r \in RecordChoices } : v \in versions }

---------------------------------------------------------------------------
(* UnpackedWheel (lines 80-107) and the process exit *)

NoDir == [state |-> "none", removals |-> 0]

\* tempfile.TemporaryDirectory(suffix="wheeldiff") (line 85)
MkDTemp == [state |-> "live", removals |-> 0]

\* TemporaryDirectory.__exit__ / cleanup: removes the directory once
Cleanup(d) ==
    IF d.state = "live"
    THEN [state |-> "removed", removals |-> d.removals + 1]
    ELSE d

\* an except clause that re-raises without cleaning up
EnterExceptNoCleanup(d) == d

\* lines 102-104: __enter__ failed, so __exit__ will not be called
EnterExcept(d) == Cleanup(d)

\* line 107
WheelExit(d) == Cleanup(d)

\* the extracted files get the current timestamp
Extracted(files, now) ==
    [p \in DOMAIN files |->
        IF files[p].kind = "file" THEN [files[p] EXCEPT !.mtime = now]
        ELSE files[p]]

\* line 198: sys.exit(0 if not accum else 2)
ExitSame == 0
ExitDiffers == 2
\* an exception that leaves entry_point (line 228) ends the interpreter
ExitUncaught == 1
ExitInterrupted == 130

\* an exit that has the two statuses the wrong way round
SysExitStatusSwapped(acc) == IF acc = <<>> THEN ExitDiffers ELSE ExitSame

SysExitStatus(acc) == IF acc = <<>> THEN ExitSame ELSE ExitDiffers

\* what the rendering loop writes for a record (lines 188-196)
Rendered(r) ==
    [what |-> CASE r.diff_type = "LEFT_ONLY" -> "Only in wheel1"
                [] r.diff_type = "RIGHT_ONLY" -> "Only in wheel2"
                [] r.diff_type = "BINARY_DIFFERS" -> "Binary file differs"
                [] r.diff_type = "TEXT_DIFFERS" -> "unified diff",
     path |-> r.path]

---------------------------------------------------------------------------
(* Command.run (lines 177-198) *)

NormIdle ==
    /\ nroot = EmptyTree
    /\ nversion = <<>>
    /\ nrewrite = FALSE
    /\ ncalls = 0
    /\ nbefore = EmptyTree

Init ==
    /\ ignore \in SUBSET {"version", "record"}
    /\ whl1 \in Wheels({V10})
    /\ whl2 \in Wheels({V10, V20})
    /\ pc = "new1"
    /\ exc = "none"
    /\ tmp1 = NoDir
    /\ tmp2 = NoDir
    /\ fs1 = EmptyTree
    /\ fs2 = EmptyTree
    /\ clock = 0
    /\ accum = <<>>
    /\ stdout = <<>>
    /\ status = -1
    /\ NormIdle

\* line 179
normalize_version_in_content == "version" \in ignore

\* UnpackedWheel(self.wheel1, ...): the file name is parsed (line 83) and
\* the temporary directory made (line 85)
New1 ==
    /\ pc = "new1"
    /\ \E parsed \in BOOLEAN :
        IF parsed
        THEN /\ tmp1' = MkDTemp
             /\ pc' = "unpack1"
             /\ exc' = exc
        ELSE /\ tmp1' = tmp1
             /\ pc' = "raise"
             /\ exc' = "InvalidFilenameError"
    /\ UNCHANGED <<ignore, whl1, whl2, tmp2, fs1, fs2, clock, accum, stdout,
                   status, normVars>>

\* __enter__, lines 88-95: `wheel unpack` into the temporary directory
Unpack1 ==
    /\ pc = "unpack1"
    /\ \/ \E now \in clock..Min({clock + 1, MaxTick}) :
            /\ fs1' = Extracted(whl1.files, now)
            /\ clock' = now
            /\ pc' = "normalize1"
            /\ UNCHANGED <<tmp1, exc>>
       \/ /\ tmp1' = EnterExcept(tmp1)
          /\ exc' = "CalledProcessError"
          /\ pc' = "raise"
          /\ UNCHANGED <<fs1, clock>>
    /\ UNCHANGED <<ignore, whl1, whl2, tmp2, fs2, accum, stdout, status,
                   normVars>>

\* __enter__, lines 96-101
Normalize1 ==
    /\ pc = "normalize1"
    /\ \/ /\ fs1' = normalize(fs1, whl1.version,
                              normalize_version_in_content, clock)
          /\ pc' = "new2"
          /\ UNCHANGED <<tmp1, exc>>
       \/ /\ tmp1' = EnterExcept(tmp1)
          /\ fs1' = EmptyTree
          /\ exc' = "OSError"
          /\ pc' = "raise"
    /\ UNCHANGED <<ignore, whl1, whl2, tmp2, fs2, clock, accum, stdout,
                   status, normVars>>

\* UnpackedWheel(self.wheel2, ...), inside the first with block
New2 ==
    /\ pc = "new2"
    /\ \E parsed \in BOOLEAN :
        IF parsed
        THEN /\ tmp2' = MkDTemp
             /\ pc' = "unpack2"
             /\ exc' = exc
        ELSE /\ tmp2' = tmp2
             /\ pc' = "exit1"
             /\ exc' = "InvalidFilenameError"
    /\ UNCHANGED <<ignore, whl1, whl2, tmp1, fs1, fs2, clock, accum, stdout,
                   status, normVars>>

Unpack2 ==
    /\ pc = "unpack2"
    /\ \/ \E now \in clock..Min({clock + 1, MaxTick}) :
            /\ fs2' = Extracted(whl2.files, now)
            /\ clock' = now
            /\ pc' = "normalize2"
            /\ UNCHANGED <<tmp2, exc>>
       \/ /\ tmp2' = EnterExcept(tmp2)
          /\ exc' = "CalledProcessError"
          /\ pc' = "exit1"
          /\ UNCHANGED <<fs2, clock>>
    /\ UNCHANGED <<ignore, whl1, whl2, tmp1, fs1, accum, stdout, status,
                   normVars>>

Normalize2 ==
    /\ pc = "normalize2"
    /\ \/ /\ fs2' = normalize(fs2, whl2.version,
                              normalize_version_in_content, clock)
          /\ pc' = "diff"
          /\ UNCHANGED <<tmp2, exc>>
       \/ /\ tmp2' = EnterExcept(tmp2)
          /\ fs2' = EmptyTree
          /\ exc' = "OSError"
          /\ pc' = "exit1"
    /\ UNCHANGED <<ignore, whl1, whl2, tmp1, fs1, clock, accum, stdout,
                   status, normVars>>

\* lines 183-184
DiffTrees ==
    /\ pc = "diff"
    /\ accum' = Diff(fs1, fs2, ignore, <<>>, <<>>)
    /\ pc' = "render"
    /\ UNCHANGED <<ignore, whl1, whl2, exc, tmp1, tmp2, fs1, fs2, clock,
                   stdout, status, normVars>>

\* one turn of the loop of lines 188-196; print_unified_diff reads both
\* files again and fails if one cannot be read
Render ==
    /\ pc = "render"
    /\ Len(stdout) < Len(accum)
    /\ LET r == accum[Len(stdout) + 1]
       IN  \E readable \in (IF r.diff_type = "TEXT_DIFFERS" THEN BOOLEAN
                            ELSE {TRUE}) :
             IF readable
             THEN /\ stdout' = Append(stdout, Rendered(r))
                  /\ UNCHANGED <<pc, exc>>
             ELSE /\ exc' = "OSError"
                  /\ pc' = "exit2"
                  /\ stdout' = stdout
    /\ UNCHANGED <<ignore, whl1, whl2, tmp1, tmp2, fs1, fs2, clock, accum,
                   status, normVars>>

\* the inner with block is left: UnpackedWheel.__exit__ of wheel 2
Exit2 ==
    /\ \/ pc = "render" /\ Len(stdout) = Len(accum)
       \/ pc = "exit2"
    /\ tmp2' = WheelExit(tmp2)
    /\ fs2' = EmptyTree
    /\ pc' = "exit1"
    /\ UNCHANGED <<ignore, whl1, whl2, exc, tmp1, fs1, clock, accum, stdout,
                   status, normVars>>

\* the outer with block is left: UnpackedWheel.__exit__ of wheel 1
Exit1 ==
    /\ pc = "exit1"
    /\ tmp1' = WheelExit(tmp1)
    /\ fs1' = EmptyTree
    /\ pc' = IF exc = "none" THEN "sysexit" ELSE "raise"
    /\ UNCHANGED <<ignore, whl1, whl2, exc, tmp2, fs2, clock, accum, stdout,
                   status, normVars>>

\* line 198
SysExit ==
    /\ pc = "sysexit"
    /\ status' = SysExitStatus(accum)
    /\ pc' = "done"
    /\ UNCHANGED <<ignore, whl1, whl2, exc, tmp1, tmp2, fs1, fs2, clock,
                   accum, stdout, normVars>>

\* the exception leaves run and entry_point
Uncaught ==
    /\ pc = "raise"
    /\ status' = IF exc = "KeyboardInterrupt" THEN ExitInterrupted
                 ELSE ExitUncaught
    /\ pc' = "done"
    /\ UNCHANGED <<ignore, whl1, whl2, exc, tmp1, tmp2, fs1, fs2, clock,
                   accum, stdout, normVars>>

\* a KeyboardInterrupt between two steps of run.  Inside __enter__ the bare
\* except of line 102 catches it; inside a with block the block is left.
Interrupt ==
    /\ pc \in {"new1", "unpack1", "normalize1", "new2", "unpack2",
               "normalize2", "diff", "render"}
    /\ exc' = "KeyboardInterrupt"
    /\ tmp1' = IF pc \in {"unpack1", "normalize1"} THEN EnterExcept(tmp1)
               ELSE tmp1
    /\ tmp2' = IF pc \in {"unpack2", "normalize2"} THEN EnterExcept(tmp2)
               ELSE tmp2
    /\ fs1' = IF pc \in {"unpack1", "normalize1"} THEN EmptyTree ELSE fs1
    /\ fs2' = IF pc \in {"unpack2", "normalize2"} THEN EmptyTree ELSE fs2
    /\ pc' = CASE pc \in {"new1", "unpack1", "normalize1"} -> "raise"
               [] pc \in {"new2", "unpack2", "normalize2"} -> "exit1"
               [] OTHER -> "exit2"
    /\ UNCHANGED <<ignore, whl1, whl2, clock, accum, stdout, status,
                   normVars>>

Next ==
    \/ New1 \/ Unpack1 \/ Normalize1
    \/ New2 \/ Unpack2 \/ Normalize2
    \/ DiffTrees \/ Render \/ Exit2 \/ Exit1
    \/ SysExit \/ Uncaught \/ Interrupt

Spec == Init /\ [][Next]_vars

---------------------------------------------------------------------------
(* normalize called directly, once and again, on small trees *)

NormChars == {"1", " ", "v", NL, BadByte}
NormContents ==
    UNION {[1..n -> NormChars] : n \in 0..MaxContentLen}
NormVersions == { <<>>, <<"1">>, <<"1", "1">> }
NormNames == { <<"a">>, <<"a", "1">> }
NormDir == <<"d", "1">>

NormTree(name, content, nested) ==
    IF nested
    THEN [p \in {<<NormDir>>, <<NormDir, name>>} |->
             IF p = <<NormDir>> THEN DirEntry ELSE FileEntry(content)]
    ELSE [p \in {<<name>>} |-> FileEntry(content)]

SessionIdle ==
    /\ ignore = {}
    /\ whl1 = [version |-> <<>>, files |-> EmptyTree]
    /\ whl2 = [version |-> <<>>, files |-> EmptyTree]
    /\ pc = "idle"
    /\ exc = "none"
    /\ tmp1 = NoDir
    /\ tmp2 = NoDir
    /\ fs1 = EmptyTree
    /\ fs2 = EmptyTree
    /\ clock = 0
    /\ accum = <<>>
    /\ stdout = <<>>
    /\ status = -1

InitNormalize ==
    /\ SessionIdle
    /\ nroot \in {NormTree(n, c, d) :
                    n \in NormNames, c \in NormContents, d \in BOOLEAN}
    /\ nversion \in NormVersions
    /\ nrewrite \in BOOLEAN
    /\ ncalls = 0
    /\ nbefore = nroot

\* normalize(root, version, version_in_content)
NormalizeCall ==
    /\ ncalls < MaxCalls
    /\ nbefore' = nroot
    /\ nroot' = normalize(nroot, nversion, nrewrite, ncalls + 1)
    /\ ncalls' = ncalls + 1
    /\ UNCHANGED <<nversion, nrewrite, sessVars>>

NextNormalize == NormalizeCall

SpecNormalize == InitNormalize /\ [][NextNormalize]_vars

---------------------------------------------------------------------------
(* Properties *)

\* same entry names, same entry types and the same file contents at every
\* level (timestamps aside)
SameTree(t1, t2) ==
    /\ DOMAIN t1 = DOMAIN t2
    /\ \A p \in DOMAIN t1 :
        /\ t1[p].kind = t2[p].kind
        /\ t1[p].content = t2[p].content

\* the tree run compares for a wheel: extracted, then normalized
Unpacked(w) ==
    normalize(Extracted(w.files, 0), w.version,
              normalize_version_in_content, 0)

\* the root-relative path of an entry, as diff builds it from the prefix
RECURSIVE RelPath(_)
RelPath(p) ==
    IF Len(p) = 1 THEN p[1]
    ELSE PathJoin(RelPath(SubSeq(p, 1, Len(p) - 1)), p[Len(p)])

RecordsFor(p) == {i \in 1..Len(accum) : accum[i].path = RelPath(p)}

\* the paths that are regular files in both trees with different bytes
DifferingCommonFiles ==
    {p \in DOMAIN fs1 \cap DOMAIN fs2 :
        /\ fs1[p].kind = "file"
        /\ fs2[p].kind = "file"
        /\ fs1[p].content # fs2[p].content}

ParentOf(p) == SubSeq(p, 1, Len(p) - 1)

Completed ==
    /\ exc = "none"
    /\ Len(stdout) = Len(accum)
    /\ tmp1.state = "removed"
    /\ tmp2.state = "removed"

\* C1: when the two trees compared have the same names, types and file
\* contents at every level, diff appends no record, whatever the ignore
\* set, and a run that completes on such trees exits with status 0.
C1_IdenticalTreesNoRecords ==
    /\ (pc \in {"render", "exit2"} /\ SameTree(fs1, fs2)) => accum = <<>>
    /\ (pc = "done" /\ exc = "none" /\ SameTree(Unpacked(whl1), Unpacked(whl2)))
          => status = ExitSame

\* two wheels of different versions whose trees are the same after
\* normalization, with a file whose timestamps differ, so that the
\* comparison had to read it
C1_Witness ==
    /\ pc = "render"
    /\ whl1.version # whl2.version
    /\ SameTree(fs1, fs2)
    /\ \E p \in DOMAIN fs1 :
         fs1[p].kind = "file" /\ fs1[p].mtime # fs2[p].mtime
    /\ accum = <<>>

\* C2: every name that is a regular file on both sides with different
\* bytes, and that the RECORD policy does not skip, gets exactly one
\* record, TEXT_DIFFERS iff both files are text and BINARY_DIFFERS
\* otherwise.
C2_OneRecordPerDifferingFile ==
    pc = "render" =>
        \A p \in DifferingCommonFiles :
            ~RecordIgnored(ignore, ParentOf(p), p[Len(p)]) =>
                /\ Cardinality(RecordsFor(p)) = 1
                /\ \A i \in RecordsFor(p) :
                     /\ accum[i].diff_type \in {"TEXT_DIFFERS", "BINARY_DIFFERS"}
                     /\ accum[i].diff_type = "TEXT_DIFFERS"
                          <=> (is_text(fs1[p].content) /\ is_text(fs2[p].content))

VHello(v) == <<"v">> \o v \o Hello

\* the scenario as the specification gives it
ScenarioAsGiven ==
    /\ "version" \in ignore
    /\ whl1 = [version |-> V10,
               files |-> WheelFiles(V10, FileEntry(VHello(V10)), Absent)]
    /\ whl2 = [version |-> V20,
               files |-> WheelFiles(V20, FileEntry(VHello(V20)), Absent)]

\* the same scenario with the token at the start of the content
ScenarioAtBoundary ==
    /\ "version" \in ignore
    /\ whl1 = [version |-> V10,
               files |-> WheelFiles(V10, FileEntry(V10 \o Hello), Absent)]
    /\ whl2 = [version |-> V20,
               files |-> WheelFiles(V20, FileEntry(V20 \o Hello), Absent)]

BothContain(c1, c2) ==
    /\ fs1[<<TopDir(Placeholder), ATxt>>].content = c1
    /\ fs2[<<TopDir(Placeholder), ATxt>>].content = c2

\* C3 as stated: a.txt = "v1.0 hello" (version 1.0) against a.txt =
\* "v2.0 hello" (version 2.0) with content rewriting: both files end up
\* containing "$VERSION hello", diff yields no record and the exit status
\* is 0.
C3_AsStated ==
    ScenarioAsGiven =>
        /\ pc \in {"diff", "render"} =>
              BothContain(Placeholder \o Hello, Placeholder \o Hello)
        /\ pc = "render" => accum = <<>>
        /\ (pc = "done" /\ exc = "none") => status = ExitSame

\* C3 amended: in that scenario the token follows the letter v, which is
\* no boundary, so both files keep their content, and diff reports a.txt
\* as TEXT_DIFFERS unless the two files have the same stat signature; with
\* the contents "1.0 hello" and "2.0 hello" both files end up containing
\* "$VERSION hello", diff yields no record and the exit status is 0.
C3_Amended ==
    /\ ScenarioAsGiven =>
        /\ pc \in {"diff", "render"} => BothContain(VHello(V10), VHello(V20))
        /\ pc = "render" =>
              accum = IF Sig(fs1[<<TopDir(Placeholder), ATxt>>])
                         = Sig(fs2[<<TopDir(Placeholder), ATxt>>])
                      THEN <<>>
                      ELSE <<Record(RelPath(<<TopDir(Placeholder), ATxt>>),
                                    "TEXT_DIFFERS")>>
    /\ ScenarioAtBoundary =>
        /\ pc \in {"diff", "render"} =>
              BothContain(Placeholder \o Hello, Placeholder \o Hello)
        /\ pc = "render" => accum = <<>>
        /\ (pc = "done" /\ exc = "none") => status = ExitSame

\* the scenario as given, run to the end: the files still differ
C3_Witness ==
    /\ ScenarioAsGiven
    /\ pc = "done"
    /\ exc = "none"
    /\ status = ExitDiffers

\* where the version occurs in s with a boundary (a boundary character or
\* an end of the string) on each side
Bounded(s, v, i) ==
    /\ LiteralAt(s, i, v)
    /\ i = 1 \/ s[i - 1] \in BoundaryChars
    /\ i + Len(v) = Len(s) + 1 \/ s[i + Len(v)] \in BoundaryChars

\* s with every bounded occurrence of the version replaced and nothing
\* else changed
RECURSIVE ReplaceBounded(_, _, _)
ReplaceBounded(s, v, i) ==
    IF i > Len(s) THEN <<>>
    ELSE IF Bounded(s, v, i)
         THEN Placeholder \o ReplaceBounded(s, v, i + Len(v))
         ELSE <<s[i]>> \o ReplaceBounded(s, v, i + 1)

\* C4: after normalize with content rewriting and a non-empty version,
\* every text file holds its former content with each bounded occurrence
\* of the version replaced by $VERSION (none remains, also when two
\* occurrences share one boundary character) and everything else as it
\* was.
C4_BoundedOccurrencesReplaced ==
    (ncalls = 1 /\ nversion # <<>> /\ nrewrite) =>
        \A p \in DOMAIN nbefore :
            (nbefore[p].kind = "file" /\ is_text(nbefore[p].content)) =>
                nroot[NewPath(p, nversion)].content
                    = ReplaceBounded(nbefore[p].content, nversion, 1)

\* C5: a second call of normalize with the same arguments changes
\* nothing.
C5_Idempotent ==
    (ncalls = 2 /\ nversion # <<>>) => nroot = nbefore

\* C6: a differing common file whose path ends with .dist-info/RECORD
\* gets no record when "record" is ignored and exactly one TEXT_DIFFERS or
\* BINARY_DIFFERS record when it is not, whether or not "version" is
\* ignored.
C6_RecordPolicy ==
    pc = "render" =>
        \A p \in DifferingCommonFiles :
            EndsWith(PathOf(TempDirName("1"), p), RecordSuffix) =>
                IF "record" \in ignore
                THEN RecordsFor(p) = {}
                ELSE /\ Cardinality(RecordsFor(p)) = 1
                     /\ \A i \in RecordsFor(p) :
                          accum[i].diff_type
                              \in {"TEXT_DIFFERS", "BINARY_DIFFERS"}

\* C7: a run ends with status 0 iff everything completed and no record
\* was accumulated, with status 2 iff everything completed and there is a
\* record, and with another non-zero status after a fatal error.
C7_ExitStatus ==
    pc = "done" =>
        /\ status = ExitSame <=> (Completed /\ accum = <<>>)
        /\ status = ExitDiffers <=> (Completed /\ accum # <<>>)
        /\ exc # "none" => status \notin {ExitSame, ExitDiffers}

\* a read failure while rendering a TEXT_DIFFERS record
C7_Witness ==
    /\ pc = "done"
    /\ exc = "OSError"
    /\ accum # <<>>
    /\ status = ExitUncaught

\* C8: when run ends every temporary directory that was made has been
\* removed, none is removed twice, and without an exception none is
\* removed before diff and rendering have finished.
C8_TempDirsRemoved ==
    /\ tmp1.removals <= 1
    /\ tmp2.removals <= 1
    /\ pc = "done" =>
          \A d \in {tmp1, tmp2} :
              /\ d.state \in {"none", "removed"}
              /\ d.state = "removed" => d.removals = 1
    /\ (exc = "none" /\ (tmp1.state = "removed" \/ tmp2.state = "removed")) =>
          /\ pc \in {"exit1", "sysexit", "done"}
          /\ Len(stdout) = Len(accum)

\* the extraction of wheel 2 failed while the directory of wheel 1 was
\* held
C8_Witness ==
    /\ pc = "done"
    /\ exc = "CalledProcessError"
    /\ tmp1 = [state |-> "removed", removals |-> 1]
    /\ tmp2 = [state |-> "removed", removals |-> 1]

\* C9: normalize with the empty version changes nothing in the tree.
C9_EmptyVersionNoOp ==
    (ncalls = 1 /\ nversion = <<>>) => nroot = nbefore

\* C10: with an empty ignore set, when diff leaves accum empty the two
\* trees have the same names, the same types and the same file contents
\* at every level.
C10_NoRecordsMeansSame ==
    (pc = "render" /\ ignore = {} /\ accum = <<>>) => SameTree(fs1, fs2)

===========================================================================
